---- MODULE Spec2Model ----
(***************************************************************************)
(* The counter store of src/App.tsx:                                       *)
(*                                                                         *)
(*   useStore = create<Store>()(devtools(persist(creator, {name})))        *)
(*                                                                         *)
(* and the App component that reads it through useShallow.                 *)
(*                                                                         *)
(* The creator (lines 60-65) is translated line by line.  The functions it *)
(* is handed to (zustand's create, devtools, persist with its default JSON *)
(* storage over localStorage, and useShallow) are modelled by what those   *)
(* library functions do when called as the source calls them:              *)
(*   - setState(partial) computes the partial (calling it when it is an    *)
(*     updater), replaces the state by Object.assign({}, state, partial)   *)
(*     and calls every listener, unless Object.is(partial, state);         *)
(*   - persist wraps set as `set(...args); void setItem()`, setItem being  *)
(*     storage.setItem(name, JSON.stringify({state, version})), and at     *)
(*     creation reads the entry, JSON.parses it inside a promise-like      *)
(*     wrapper whose rejection is swallowed, drops an entry of another     *)
(*     version, and otherwise installs {...current, ...persisted};         *)
(*   - devtools, when the browser extension is installed, replaces         *)
(*     api.setState by `r = set(state, replace); connection.send(action,   *)
(*     get()); return r`, and is the identity otherwise;                   *)
(*   - useShallow returns the previous selection when the new one is       *)
(*     shallow-equal to it, and React re-renders when the selection it is  *)
(*     given is a new reference.                                           *)
(*                                                                         *)
(* Values are JavaScript values: count is declared a number, but a value   *)
(* read back from the durable entry is whatever JSON.parse produced.       *)
(***************************************************************************)
EXTENDS Integers, Sequences, FiniteSets, TLC

\* Calls of increment/decrement/reset modelled per store lifetime.
MaxOps == 3
\* Page reloads (the store discarded and created again) modelled.
MaxRestarts == 1

VARIABLES
  state,        \* the store's state object (api.getState())
  storage,      \* localStorage entry under 'zustand-react-typescript-base'
  ext,          \* window.__REDUX_DEVTOOLS_EXTENSION__: "present" | "absent"
  view,         \* the selection App last rendered with (useShallow's cache)
  plain,        \* the same store run without the devtools extension
  plainView,    \* App's selection over that store
  lastOp,       \* "create" | "increment" | "decrement" | "reset"
  failure,      \* what the last call threw: "none" | "send" | "write"
  rendered,     \* re-renders of App caused by the last call
  plainRendered,\* the same for the store without the extension
  prevState,    \* the state object before the last call
  history,      \* calls made on this store since it was created
  startCount,   \* count right after creation (after rehydration)
  discarded,    \* what the previous store held when it was discarded
  restarts      \* stores discarded so far

vars == <<state, storage, ext, view, plain, plainView, lastOp, failure,
          rendered, plainRendered, prevState, history, startCount,
          discarded, restarts>>

----------------------------------------------------------------------------
\* JavaScript values.  A string is "abc" followed by v characters "1".

Num(n) == [t |-> "num", v |-> n]
Str(k) == [t |-> "str", v |-> k]
NaN == [t |-> "nan", v |-> 0]
Null == [t |-> "null", v |-> 0]
Undefined == [t |-> "undef", v |-> 0]
Fn(i) == [t |-> "fn", v |-> i]

\* The three closures the creator builds (lines 62, 63, 64).
FnIncrement == Fn(1)
FnDecrement == Fn(2)
FnReset == Fn(3)

Ops == {"increment", "decrement", "reset"}

\* obj[k], undefined when obj has no such property.
Get(obj, k) == IF k \in DOMAIN obj THEN obj[k] ELSE Undefined

\* Object.is on the values above (NaN is NaN; no -0 arises from n + 1, n - 1).
ObjectIs(a, b) == a = b

\* v + 1: number addition, string concatenation, null as 0, else NaN.
Add1(v) ==
  CASE v.t = "num" -> Num(v.v + 1)
    [] v.t = "str" -> Str(v.v + 1)
    [] v.t = "null" -> Num(1)
    [] OTHER -> NaN

\* v - 1: a non-numeric string converts to NaN, null to 0.
Sub1(v) ==
  CASE v.t = "num" -> Num(v.v - 1)
    [] v.t = "null" -> Num(0 - 1)
    [] OTHER -> NaN

\* Object.assign({}, target, source) and {...target, ...source}.
ObjectAssign(target, source) ==
  [k \in DOMAIN target \cup DOMAIN source |->
     IF k \in DOMAIN source THEN source[k] ELSE target[k]]

----------------------------------------------------------------------------
\* The creator, lines 60-65.

ConfigResult ==
  [count |-> Num(0), increment |-> FnIncrement,
   decrement |-> FnDecrement, reset |-> FnReset]

\* Faulty variant of decrement (adds instead of subtracting): C1 must catch it.
DecrementAdds(s) == [count |-> Add1(Get(s, "count"))]

\* line 62: state => ({count: state.count + 1})
IncrementPartial(s) == [count |-> Add1(Get(s, "count"))]

\* line 63: state => ({count: state.count - 1})
DecrementPartial(s) == [count |-> Sub1(Get(s, "count"))]

\* Faulty variant of reset (leaves count as it is): C8 must catch it.
ResetKeeps(s) == [count |-> Get(s, "count")]

\* line 64: {count: 0}
ResetPartial(s) == [count |-> Num(0)]

PartialOf(op, s) ==
  CASE op = "increment" -> IncrementPartial(s)
    [] op = "decrement" -> DecrementPartial(s)
    [] op = "reset" -> ResetPartial(s)

----------------------------------------------------------------------------
\* create: the vanilla store's setState.  The partial is a fresh object, so
\* it is never Object.is the state: the state is replaced and every listener
\* is called once, also when no field changed.

\* Faulty variant of setState (replaces instead of merging): C10 must catch it.
RawSetStateReplaces(s, partial) == partial

RawSetState(s, partial) == ObjectAssign(s, partial)

----------------------------------------------------------------------------
\* persist with the default storage, createJSONStorage(() => localStorage).

\* JSON.stringify of one value: NaN becomes null.
ToJSON(v) == IF v.t = "nan" THEN Null ELSE v

\* JSON.stringify({state, version: 0}): function-valued and undefined
\* properties are left out.
Serialize(s) ==
  [kind |-> "json",
   state |-> [k \in {j \in DOMAIN s : s[j].t \notin {"fn", "undef"}} |->
                ToJSON(s[k])],
   version |-> 0]

\* options.merge: {...currentState, ...persistedState}
PersistMerge(persisted, current) == ObjectAssign(current, persisted)

\* hydrate(): the state the new store starts with.
Hydrate(entry, config) ==
  CASE entry.kind = "absent" -> config
    [] entry.kind = "corrupt" -> config
    [] entry.kind = "json" /\ entry.version # 0 -> config
    [] OTHER -> PersistMerge(entry.state, config)

----------------------------------------------------------------------------
\* devtools: api.setState when the extension is installed.

\* Faulty variant of devtools (reports before setting, so a failed report
\* loses the update): C9 must catch it.
DevtoolsSendsFirst(e, sendThrows, s, partial) ==
  IF e = "present" /\ sendThrows
    THEN [state |-> s, notified |-> FALSE, threw |-> TRUE]
    ELSE [state |-> RawSetState(s, partial), notified |-> TRUE,
          threw |-> FALSE]

DevtoolsSetState(e, sendThrows, s, partial) ==
  [state |-> RawSetState(s, partial), notified |-> TRUE,
   threw |-> e = "present" /\ sendThrows]

\* persist's wrapper, the `set` the creator receives:
\*   set(...args); void setItem()
PersistSet(e, sendThrows, writeThrows, s, entry, partial) ==
  LET d == DevtoolsSetState(e, sendThrows, s, partial) IN
  IF d.threw
    THEN [state |-> d.state, notified |-> d.notified, storage |-> entry,
          failure |-> "send"]
    ELSE IF writeThrows
      THEN [state |-> d.state, notified |-> d.notified, storage |-> entry,
            failure |-> "write"]
      ELSE [state |-> d.state, notified |-> d.notified,
            storage |-> Serialize(d.state), failure |-> "none"]

----------------------------------------------------------------------------
\* App, lines 76-78.

\* Faulty variant of the selector (count not selected): C2 must catch it.
SelectedWithoutCount(s) ==
  [increment |-> Get(s, "increment"), decrement |-> Get(s, "decrement")]

\* line 77: the selector
Selected(s) ==
  [count |-> Get(s, "count"), increment |-> Get(s, "increment"),
   decrement |-> Get(s, "decrement")]

\* Faulty variant of the comparison (reference identity, as without
\* useShallow): C3 must catch it.
ShallowIsIdentity(a, b) == FALSE

\* zustand's shallow on two plain objects built by the selector: never the
\* same reference, equal when they have the same keys with Object.is values.
Shallow(a, b) ==
  /\ DOMAIN a = DOMAIN b
  /\ \A k \in DOMAIN a : ObjectIs(a[k], b[k])

\* useShallow: the selection handed to React after a notification.
UseShallow(prev, next) == IF Shallow(prev, next) THEN prev ELSE next

\* React re-renders when the selection is a new reference.
Renders(prev, next, notified) ==
  IF notified /\ ~Shallow(prev, next) THEN 1 ELSE 0

----------------------------------------------------------------------------
\* What localStorage may hold when the page loads.

InitialEntries ==
  {[kind |-> "absent"], [kind |-> "corrupt"]}
    \cup {[kind |-> "json", state |-> [count |-> Num(2)], version |-> 0]}
    \cup {[kind |-> "json", state |-> [count |-> Num(2)], version |-> 1]}
    \cup {[kind |-> "json", state |-> [count |-> Str(0)], version |-> 0]}

Init ==
  /\ storage \in InitialEntries
  /\ ext \in {"present", "absent"}
  /\ state = Hydrate(storage, ConfigResult)
  /\ plain = state
  /\ view = Selected(state)
  /\ plainView = view
  /\ lastOp = "create"
  /\ failure = "none"
  /\ rendered = 0
  /\ plainRendered = 0
  /\ prevState = state
  /\ history = <<>>
  /\ startCount = Get(state, "count")
  /\ discarded = [count |-> Undefined, serialized |-> FALSE]
  /\ restarts = 0

\* One call of increment(), decrement() or reset().
Call(op, sendThrows, writeThrows) ==
  /\ Len(history) < MaxOps
  /\ sendThrows => ext = "present"
  /\ LET r == PersistSet(ext, sendThrows, writeThrows, state, storage,
                         PartialOf(op, state))
         p == PersistSet("absent", FALSE, writeThrows, plain, storage,
                         PartialOf(op, plain))
     IN /\ state' = r.state
        /\ storage' = r.storage
        /\ failure' = r.failure
        /\ rendered' = Renders(view, Selected(r.state), r.notified)
        /\ view' = IF r.notified
                     THEN UseShallow(view, Selected(r.state)) ELSE view
        /\ plain' = p.state
        /\ plainRendered' = Renders(plainView, Selected(p.state), p.notified)
        /\ plainView' = IF p.notified
                          THEN UseShallow(plainView, Selected(p.state))
                          ELSE plainView
  /\ prevState' = state
  /\ lastOp' = op
  /\ history' = Append(history, op)
  /\ UNCHANGED <<ext, startCount, discarded, restarts>>

Increment == \E st \in BOOLEAN, wt \in BOOLEAN : Call("increment", st, wt)

Decrement == \E st \in BOOLEAN, wt \in BOOLEAN : Call("decrement", st, wt)

Reset == \E st \in BOOLEAN, wt \in BOOLEAN : Call("reset", st, wt)

\* The page is reloaded: the store is discarded and the module runs again.
Restart ==
  /\ restarts < MaxRestarts
  /\ restarts' = restarts + 1
  /\ discarded' = [count |-> Get(state, "count"),
                   serialized |-> lastOp \in Ops /\ failure = "none"]
  /\ state' = Hydrate(storage, ConfigResult)
  /\ plain' = state'
  /\ view' = Selected(state')
  /\ plainView' = view'
  /\ lastOp' = "create"
  /\ failure' = "none"
  /\ rendered' = 0
  /\ plainRendered' = 0
  /\ prevState' = state'
  /\ history' = <<>>
  /\ startCount' = Get(state', "count")
  /\ UNCHANGED <<storage, ext>>

Next == Increment \/ Decrement \/ Reset \/ Restart

Spec == Init /\ [][Next]_vars

----------------------------------------------------------------------------
\* The calls folded in order from 0: +1 per increment, -1 per decrement,
\* back to 0 at each reset.
RECURSIVE Fold(_)
Fold(calls) ==
  IF calls = <<>> THEN 0
  ELSE LET before == Fold(SubSeq(calls, 1, Len(calls) - 1))
           op == calls[Len(calls)]
       IN CASE op = "increment" -> before + 1
            [] op = "decrement" -> before - 1
            [] op = "reset" -> 0

Count == Get(state, "count")

\* C1: on a store that starts with count = 0, count after any sequence of
\* increment/decrement/reset calls is the fold of that sequence from 0.
C1_CountIsFoldOfCalls ==
  startCount = Num(0) => Count = Num(Fold(history))

C1_Witness ==
  /\ startCount = Num(0)
  /\ history = <<"increment", "reset", "decrement">>

\* C2 as stated: every increment(), decrement() or reset() call re-renders
\* the subscriber exactly once.
C2_EveryCallNotifiesOnce ==
  lastOp \in Ops => rendered = 1

\* C2 amended: a call re-renders the subscriber exactly once when it changes
\* count, and not at all when it leaves count as it was.
C2_OneNotificationPerChange ==
  lastOp \in Ops =>
    rendered = (IF Count # Get(prevState, "count") THEN 1 ELSE 0)

C2_Witness ==
  /\ lastOp = "decrement"
  /\ Count # Get(prevState, "count")
  /\ rendered = 1

\* C3: the View re-renders only when a selected field (count, increment,
\* decrement) differs from its previous value; reset() at count 0 delivers
\* nothing.
C3_RenderOnlyOnShallowChange ==
  (lastOp \in Ops /\ rendered >= 1) =>
    \E k \in {"count", "increment", "decrement"} :
      Get(state, k) # Get(prevState, k)

C3_Witness ==
  /\ lastOp = "reset"
  /\ Get(prevState, "count") = Num(0)
  /\ rendered = 0

\* C4 as stated: a store created from the entry that the discarded store
\* serialized has the count the discarded store had.
C4_RoundTrip ==
  (lastOp = "create" /\ restarts > 0 /\ discarded.serialized) =>
    Count = discarded.count

Malformed(entry) ==
  \/ entry.kind \in {"absent", "corrupt"}
  \/ entry.kind = "json" /\ Get(entry.state, "count").t # "num"

\* C5 as stated: with the entry absent, corrupt or holding a non-numeric
\* count, the store is created with count = 0.
C5_MalformedFallsBackToZero ==
  (lastOp = "create" /\ Malformed(storage)) => Count = Num(0)

\* C6 as stated: after a call that returned, the count in the durable entry
\* is the in-memory count.
C6_EntryMirrorsCount ==
  (lastOp \in Ops /\ failure = "none") =>
    /\ storage.kind = "json"
    /\ Get(storage.state, "count") = Count

\* C7 as stated: a call never surfaces an error, and count holds the updated
\* value, whether or not the durable write or the inspection report failed.
C7_CallNeverThrows ==
  lastOp \in Ops =>
    /\ failure = "none"
    /\ Count = PartialOf(lastOp, prevState).count

\* C8: reset() twice in a row gives count = 0 after the first call and after
\* the second, and the second call leaves the whole state as it was.
C8_ResetIdempotent ==
  (/\ Len(history) >= 2
   /\ history[Len(history)] = "reset"
   /\ history[Len(history) - 1] = "reset") =>
    /\ Get(prevState, "count") = Num(0)
    /\ Count = Num(0)
    /\ state = prevState
    /\ rendered = 0

C8_Witness ==
  history = <<"increment", "reset", "reset">>

====
